---------------------------- MODULE Spec2Model ----------------------------
(***************************************************************************)
(* Model of the AuthMicroservice credential orchestrator                   *)
(* (Backend/AuthMicroservice/internal/usecase/auth.go) together with the   *)
(* store adapters it calls (infra/redis/redis.go, infra/postgres/*.go).    *)
(*                                                                         *)
(* Every request is served by a worker p \in Procs.  A handler is split    *)
(* at its store calls: each action is one store call together with the     *)
(* local code that follows it, up to the next store call or the return.    *)
(* The relational store and the cache outlive the process; the process can *)
(* die of a panic (crashed) and be started again.                          *)
(*                                                                         *)
(* SpecVerify   : GenerateAuthCode, its goroutine, Verify, the clock.      *)
(* SpecSession  : Register, Login, Logout, CheckAccessToken.               *)
(* Both run against stores that answer every call (no transport fault).    *)
(***************************************************************************)
EXTENDS Integers, Sequences, FiniteSets, TLC

\* ------------------------------------------------------------------ bounds
CodeTTL == 2      \* entity.AuthCode.TTL, in clock ticks
MaxGen  == 1      \* GenerateAuthCode calls in one behaviour
MaxLogins == 2    \* access tokens generateAccessToken draws in one behaviour
MaxSvcTokens == 3 \* service tokens generateServiceToken draws in one behaviour

Procs   == {1, 2}     \* request workers: the calls that can be in flight at once
UserIDs == {1, 2}     \* the user ids a request may carry
Codes   == {1, 2}     \* the strings generateRandomCode can draw
Usernames == {"ann", "bob"}
Passwords == {"pw1", "pw2"}
ServiceNames == {"svcA", "svcB"}
RoleTitles == {"user", "admin", "guest"}   \* "guest" is a title of no role

\* ------------------------------------------------------------------ errors
ErrVerificationFailed   == "ErrVerificationFailed"
ErrCacheNotFound        == "ErrCacheNotFound"
ErrAccountAlreadyExists == "ErrAccountAlreadyExists"
ErrAccountNotFound      == "ErrAccountNotFound"
ErrBadCredentials       == "ErrBadCredentials"
ErrTokenNotFound        == "ErrTokenNotFound"
ErrInvalidRole          == "ErrInvalidRole"
ErrStore                == "ErrStore"         \* a wrapped, unclassified store error
ErrCtxCanceled          == "ErrCtxCanceled"   \* context.Canceled from a store call
Nil                     == "nil"

VARIABLES
    authCodes,   \* the cache: code -> [val, ttl]; gen and src are history:
                 \* the write that put the key and the value handed to it
    tgConns,     \* rows of telegram_connection: [id, user_id, tg_user_id]
    nextTgID,    \* the telegram_connection table's id sequence
    calls,       \* calls[p]: the request worker p serves, with its locals
    bg,          \* the goroutines started by GenerateAuthCode and still running
    genCount,    \* GenerateAuthCode calls so far
    crashed,     \* the process has died of a panic nobody recovered
    last,        \* history: what the step just taken returned, NoCall if nothing
    justIssued,  \* history: the GenerateAuthCode that has just returned, if any
    used,        \* history: codes verified and not issued again since
    expired,     \* history: codes whose key ran out of time and was not written since
    accepted,    \* history: the cache writes a Verify has returned true on
    pending,     \* history: codes issued whose cache write has not gone through
    early,       \* history: a Verify has run on a code of pending
    orphans,     \* history: the Verify calls the process died on between their
                 \* INSERT of a link and their DEL: [userID, code, gen]
    accounts,    \* rows of account: [id, username, password, role_id]
    tokens,      \* rows of token: [id, user_id, access_token]
    nextUserID,  \* the account table's id sequence
    nextTokenID, \* the token table's id sequence
    nextToken,   \* the next string generateAccessToken draws
    issued,      \* history: token -> the account id Login returned with it
    loggedOut,   \* history: the tokens a Logout has succeeded on
    svcTokens,   \* rows of service_token: [id, service_name, token]
    nextSvcID,   \* the service_token table's id sequence
    nextSvcToken,\* the next string generateServiceToken draws
    svcFirst,    \* history: service name -> the first token returned for it
    roleRows,    \* rows of role: [id, title]; no operation writes them
    roleLog      \* history: account id -> the role id of the last UPDATE applied
                 \* to it and of the one before ([id, prev], 0 for none)

verifyVars == <<authCodes, tgConns, nextTgID, bg, genCount, crashed,
                justIssued, used, expired, accepted, pending, early, orphans>>

sessionVars == <<accounts, tokens, nextUserID, nextTokenID, nextToken,
                 issued, loggedOut, roleRows, roleLog>>

serviceVars == <<svcTokens, nextSvcID, nextSvcToken, svcFirst>>

vars == <<calls, last, verifyVars, sessionVars, serviceVars>>

Idle   == [op |-> "none", pc |-> "idle"]
NoCall == [op |-> "none"]

Free(p) == ~crashed /\ calls[p].pc = "idle"

\* ------------------------------------------------------------- JSON values
\* encoding/json renders an int as its decimal digits and parses them back.
RECURSIVE DecDigits(_)
DecDigits(n) == IF n < 10 THEN <<n>> ELSE Append(DecDigits(n \div 10), n % 10)

RECURSIVE ParseDec(_)
ParseDec(s) ==
    IF Len(s) = 0 THEN 0
    ELSE 10 * ParseDec(SubSeq(s, 1, Len(s) - 1)) + s[Len(s)]

JSONMarshal(value) == DecDigits(value)

JSONUnmarshal(p) == ParseDec(p)

\* ------------------------------------------------- the cache (infra/redis)
\* RedisRepository.Set: SET key value EX ttl; a key already there is overwritten.
RedisSet(cache, key, value, expTime, g) ==
    [k \in (DOMAIN cache) \cup {key} |->
        IF k = key THEN [val |-> JSONMarshal(value), ttl |-> expTime,
                         gen |-> g, src |-> value]
                   ELSE cache[k]]

\* RedisRepository.Get, its error: redis.Nil becomes ErrCacheNotFound.
RedisGetErr(cache, key) ==
    IF key \notin DOMAIN cache THEN ErrCacheNotFound ELSE Nil

\* RedisRepository.Get, the value it leaves in dest.
RedisGet(cache, key) == JSONUnmarshal(cache[key].val)

\* RedisRepository.Del: DEL key.
RedisDel(cache, key) == [k \in (DOMAIN cache) \ {key} |-> cache[k]]

\* ------------------------------------- telegram_connection (infra/postgres)
TgConnRowSwapped(id, userID, tgUserID) ==
    [id |-> id, user_id |-> tgUserID, tg_user_id |-> userID]

\* TgConnectionRepository.Create, the row it inserts.
TgConnRow(id, userID, tgUserID) ==
    [id |-> id, user_id |-> userID, tg_user_id |-> tgUserID]

\* SELECT ... WHERE tg_user_id = $1 with the account's id.
TgConnGetByUserIDAsTg(rows, userID) == {r \in rows : r.tg_user_id = userID}

\* TgConnectionRepository.GetByUserID: the rows WHERE user_id = $1.
TgConnGetByUserID(rows, userID) == {r \in rows : r.user_id = userID}

\* The table admits at most one link per account id and per secondary-identity
\* id (the schema is not among the sources; the data model states it).
TgConnUniqueNone(rows, userID, tgUserID) == TRUE

TgConnUniqueUserOnly(rows, userID, tgUserID) ==
    \A r \in rows : r.user_id # userID

TgConnUnique(rows, userID, tgUserID) ==
    \A r \in rows : r.user_id # userID /\ r.tg_user_id # tgUserID

\* ----------------------------------------------- AuthService.GenerateAuthCode
\* generateRandomCode draws the code; the goroutine that writes the cache is
\* started with the request's context; the handler returns the code at once.
GenerateAuthCode(userID, code) ==
    /\ ~crashed
    /\ genCount < MaxGen
    /\ genCount' = genCount + 1
    /\ bg' = bg \cup {[id |-> genCount + 1, code |-> code, userID |-> userID,
                       pc |-> "set", err |-> Nil]}
    /\ justIssued' = [userID |-> userID, code |-> code]
    /\ used' = used \ {code}
    /\ pending' = pending \cup {code}
    /\ last' = NoCall
    /\ UNCHANGED <<authCodes, tgConns, nextTgID, calls, crashed, expired, accepted, early, orphans>>
    /\ UNCHANGED <<sessionVars, serviceVars>>

\* Line 229: log.Error(..., slog.String("error", err.Error())) is reached
\* whatever err is, and err.Error() on a nil error is a nil dereference.
LogPanics(err) == err = Nil

\* The goroutine, line 228: err := s.authCodes.Set(ctx, code, userID, TTL).
\* ctx is the request's context, which the server cancels once the RPC has
\* completed: the write goes through, or it is given up with the context's
\* error, which line 229 logs before the goroutine ends.
BgSet(t) ==
    /\ ~crashed
    /\ t \in bg
    /\ t.pc = "set"
    /\ \/ /\ authCodes' = RedisSet(authCodes, t.code, t.userID, CodeTTL, t.id)
          /\ bg' = (bg \ {t}) \cup {[t EXCEPT !.pc = "log", !.err = Nil]}
          /\ expired' = expired \ {t.code}
          /\ pending' = pending \ {t.code}
       \/ /\ ~LogPanics(ErrCtxCanceled)
          /\ bg' = bg \ {t}
          /\ UNCHANGED <<authCodes, expired, pending>>
    /\ last' = NoCall
    /\ UNCHANGED <<tgConns, nextTgID, calls, genCount, crashed, justIssued, used, accepted, early, orphans>>
    /\ UNCHANGED <<sessionVars, serviceVars>>

\* The goroutine, line 229, after a write that went through: the goroutine
\* panics, nothing recovers it, and the process ends with every request in flight.
BgLogStep(t) ==
    /\ ~crashed
    /\ t \in bg
    /\ t.pc = "log"
    /\ LogPanics(t.err)
    /\ crashed' = TRUE
    /\ bg' = {}
    /\ calls' = [p \in Procs |-> Idle]
    /\ last' = NoCall
    /\ UNCHANGED <<authCodes, tgConns, nextTgID, genCount, justIssued, used, expired, accepted,
                   pending, early>>
    /\ UNCHANGED <<sessionVars, serviceVars>>

BgLog(t) ==
    /\ BgLogStep(t)
    /\ UNCHANGED orphans

\* The calls in flight that have inserted their link and not yet deleted
\* the code (between lines 267 and 283).
Orphaned ==
    {[userID |-> calls[p].userID, code |-> calls[p].code, gen |-> calls[p].gen] :
        p \in {q \in Procs : /\ calls[q].op = "Verify" /\ calls[q].pc = "v_del"
                              /\ calls[q].created}}

\* The same step, with the history of the calls it ended kept in orphans.
BgLogOrphans(t) ==
    /\ BgLogStep(t)
    /\ orphans' = orphans \cup Orphaned

\* The process is started again (app.Run); both stores have kept their contents.
Restart ==
    /\ crashed
    /\ crashed' = FALSE
    /\ last' = NoCall
    /\ UNCHANGED <<authCodes, tgConns, nextTgID, calls, bg, genCount,
                   justIssued, used, expired, accepted, pending, early, orphans>>
    /\ UNCHANGED <<sessionVars, serviceVars>>

\* One clock tick: every key of the cache is one tick nearer to its expiry.
Tick ==
    /\ DOMAIN authCodes # {}
    /\ authCodes' = [k \in {c \in DOMAIN authCodes : authCodes[c].ttl > 1} |->
                        [authCodes[k] EXCEPT !.ttl = @ - 1]]
    /\ justIssued' = NoCall
    /\ expired' = expired \cup {c \in DOMAIN authCodes : authCodes[c].ttl <= 1}
    /\ last' = NoCall
    /\ UNCHANGED <<tgConns, nextTgID, calls, bg, genCount, crashed, used, accepted,
                   pending, early, orphans>>
    /\ UNCHANGED <<sessionVars, serviceVars>>

\* ----------------------------------------------------- AuthService.Verify
\* Verify returns (ret, err): the worker is free again.
VerifyReturn(p, c, ret, err) ==
    /\ calls' = [calls EXCEPT ![p] = Idle]
    /\ last' = [op |-> "Verify", absent |-> c.absent, late |-> c.late, noLink |-> c.noLink,
                created |-> c.created, first |-> c.first, again |-> c.again,
                dup |-> c.gen \in accepted, linked |-> c.linked, same |-> c.same,
                unwritten |-> c.unwritten, delFailed |-> c.delFailed,
                ret |-> ret, err |-> err]

VerifyGetFailureUnmapped(err) == err

\* Lines 251-260: what Verify returns when the cache read failed.
VerifyGetFailure(err) ==
    IF err = ErrCacheNotFound THEN ErrVerificationFailed ELSE err

VerifyCompareNone(tgUserID, tgConn) == Nil

\* Lines 278-281: the cached id against the link's.
VerifyCompare(tgUserID, tgConn) ==
    IF tgUserID # tgConn.tg_user_id THEN ErrVerificationFailed ELSE Nil

\* Lines 249-260: var tgUserID int; s.authCodes.Get(ctx, code, &tgUserID).
VerifyGetStep(p, userID, code) ==
    /\ Free(p)
    /\ LET err == RedisGetErr(authCodes, code)
           c   == [op |-> "Verify", pc |-> "v_conn", userID |-> userID,
                   code |-> code, tgUserID |-> 0, gen |-> 0, src |-> 0,
                   absent |-> code \notin DOMAIN authCodes,
                   late |-> code \in expired,
                   noLink |-> FALSE, created |-> FALSE,
                   linked |-> FALSE, same |-> FALSE, delFailed |-> FALSE,
                   unwritten |-> code \in pending /\ code \notin DOMAIN authCodes,
                   first |-> /\ justIssued = [userID |-> userID, code |-> code]
                             /\ \A r \in TgConnGetByUserID(tgConns, userID) :
                                    r.tg_user_id = userID,
                   again |-> code \in used]
       IN  IF err # Nil
           THEN VerifyReturn(p, c, FALSE, VerifyGetFailure(err))
           ELSE /\ calls' = [calls EXCEPT ![p] =
                       [c EXCEPT !.tgUserID = RedisGet(authCodes, code),
                                 !.gen = authCodes[code].gen,
                                 !.src = authCodes[code].src]]
                /\ last' = NoCall
    /\ justIssued' = NoCall
    /\ UNCHANGED <<authCodes, tgConns, nextTgID, bg, genCount, crashed, used, expired, accepted,
                   pending, orphans>>
    /\ UNCHANGED <<sessionVars, serviceVars>>

VerifyGet(p, userID, code) ==
    /\ VerifyGetStep(p, userID, code)
    /\ UNCHANGED early

\* The same step, with the history of it kept in early.
VerifyGetEarly(p, userID, code) ==
    /\ VerifyGetStep(p, userID, code)
    /\ early' = (early \/ (code \in pending /\ code \notin DOMAIN authCodes))

\* Lines 263-266, and 278-281 when a link is found.
VerifyGetConn(p) ==
    /\ ~crashed
    /\ calls[p].op = "Verify" /\ calls[p].pc = "v_conn"
    /\ LET c    == calls[p]
           rows == TgConnGetByUserID(tgConns, c.userID)
       IN  IF rows = {}
           THEN /\ calls' = [calls EXCEPT ![p] =
                                [c EXCEPT !.pc = "v_create", !.noLink = TRUE]]
                /\ last' = NoCall
           ELSE LET tgConn == CHOOSE r \in rows : TRUE
                    err    == VerifyCompare(c.tgUserID, tgConn)
                    d      == [c EXCEPT !.linked = TRUE,
                                        !.same = (tgConn.tg_user_id = c.src)]
                IN  IF err # Nil
                    THEN VerifyReturn(p, d, FALSE, err)
                    ELSE /\ calls' = [calls EXCEPT ![p] = [d EXCEPT !.pc = "v_del"]]
                         /\ last' = NoCall
    /\ UNCHANGED <<authCodes, tgConns, nextTgID, bg, genCount, crashed,
                   justIssued, used, expired, accepted, pending, early, orphans>>
    /\ UNCHANGED <<sessionVars, serviceVars>>

\* Lines 267-271 and 278-281: s.tgConn.Create(ctx, userID, tgUserID).
VerifyCreate(p) ==
    /\ ~crashed
    /\ calls[p].op = "Verify" /\ calls[p].pc = "v_create"
    /\ LET c   == calls[p]
           row == TgConnRow(nextTgID, c.userID, c.tgUserID)
       IN  IF TgConnUnique(tgConns, c.userID, c.tgUserID)
           THEN /\ tgConns' = tgConns \cup {row}
                /\ nextTgID' = nextTgID + 1
                /\ LET err == VerifyCompare(c.tgUserID, row)
                       d   == [c EXCEPT !.created = TRUE]
                   IN  IF err # Nil
                       THEN VerifyReturn(p, d, FALSE, err)
                       ELSE /\ calls' = [calls EXCEPT ![p] = [d EXCEPT !.pc = "v_del"]]
                            /\ last' = NoCall
           ELSE /\ VerifyReturn(p, c, FALSE, ErrVerificationFailed)
                /\ UNCHANGED <<tgConns, nextTgID>>
    /\ UNCHANGED <<authCodes, bg, genCount, crashed, justIssued, used, expired, accepted,
                   pending, early, orphans>>
    /\ UNCHANGED <<sessionVars, serviceVars>>

\* Lines 283-290: s.authCodes.Del(ctx, code); the count it returns is dropped.
VerifyDel(p) ==
    /\ ~crashed
    /\ calls[p].op = "Verify" /\ calls[p].pc = "v_del"
    /\ LET c == calls[p]
       IN  /\ authCodes' = RedisDel(authCodes, c.code)
           /\ VerifyReturn(p, c, TRUE, Nil)
           /\ accepted' = accepted \cup {c.gen}
           /\ used' = used \cup {c.code}
    /\ UNCHANGED <<tgConns, nextTgID, bg, genCount, crashed, justIssued, expired, pending, early, orphans>>
    /\ UNCHANGED <<sessionVars, serviceVars>>

VerifyDelFailureAsFailed(err) == ErrVerificationFailed

\* The failure of the delete mapped as the failure of the read is.
VerifyDelFailureAsGet(err) == VerifyGetFailure(ErrCacheNotFound)

\* Lines 284-287: what Verify returns when the cache delete failed.
VerifyDelFailure(err) == err

\* Lines 283-287 with a cache that fails the DEL: the key is still there, or
\* it was removed and the reply was lost.
VerifyDelFails(p) ==
    /\ ~crashed
    /\ calls[p].op = "Verify" /\ calls[p].pc = "v_del"
    /\ LET c == calls[p]
       IN  /\ \E removed \in BOOLEAN :
                 authCodes' = IF removed THEN RedisDel(authCodes, c.code)
                              ELSE authCodes
           /\ VerifyReturn(p, [c EXCEPT !.delFailed = TRUE], FALSE,
                           VerifyDelFailure(ErrStore))
    /\ UNCHANGED <<tgConns, nextTgID, bg, genCount, crashed, justIssued, used,
                   expired, accepted, pending, early, orphans>>
    /\ UNCHANGED <<sessionVars, serviceVars>>

\* ------------------------------------------ account, role (infra/postgres)
\* The role table as the migrations leave it (they are not among the sources;
\* the data model names the two titles).
RoleTable == {[id |-> 1, title |-> "user"], [id |-> 2, title |-> "admin"]}

\* UserRepository.Create, lines 25-31: SELECT id FROM role WHERE title = 'user'.
DefaultRoleID == (CHOOSE r \in RoleTable : r.title = "user").id

\* UserRepository.Create, the row it inserts.
UserRow(id, username, password, roleID) ==
    [id |-> id, username |-> username, password |-> password,
     role_id |-> roleID]

\* The default role's id written into the statement, no SELECT.
UserDefaultRoleFixed(table) == {[id |-> 1, title |-> "user"]}

\* UserRepository.Create, lines 25-31: SELECT id FROM role WHERE title = 'user'
\* LIMIT 1 on the rows the table holds.
UserDefaultRole(table) == {r \in table : r.title = "user"}

\* UserRepository.GetByUsername: the rows WHERE u.username = $1.
UserGetByUsername(rows, username) == {a \in rows : a.username = username}

UserGetByUsernameErrAlways(rows, username) == ErrStore

\* UserRepository.GetByUsername, its error: no row is a wrapped sql.ErrNoRows.
UserGetByUsernameErr(rows, username) ==
    IF UserGetByUsername(rows, username) = {} THEN ErrStore ELSE Nil

\* account.username is unique (the schema is not among the sources; the data
\* model states that the store enforces it).
UsernameUnique(rows, username) == \A a \in rows : a.username # username

\* bcrypt.GenerateFromPassword: the digest, not the password (the salt is left out).
BcryptHash(password) == <<"bcrypt", password>>

BcryptCompareLoose(hash, password) == hash[1] = "bcrypt"

\* bcrypt.CompareHashAndPassword returns nil.
BcryptCompare(hash, password) == hash = BcryptHash(password)

\* ------------------------------------------------- token (infra/postgres)
TokenRowByID(id, userID, token) ==
    [id |-> id, user_id |-> id, access_token |-> token]

\* TokenRepository.CreateAccessToken, the row it inserts.
TokenRow(id, userID, token) ==
    [id |-> id, user_id |-> userID, access_token |-> token]

\* TokenRepository.GetAccessTokenByToken: the rows WHERE access_token = $1.
TokenGetByToken(rows, token) == {t \in rows : t.access_token = token}

\* DELETE ... WHERE user_id = (the row's user_id): every session of the account.
TokenDeleteOfUser(rows, id) ==
    {t \in rows : \A r \in rows : r.id = id => t.user_id # r.user_id}

\* TokenRepository.DeleteAccessToken: DELETE FROM token WHERE id = $1.
TokenDelete(rows, id) == {t \in rows : t.id # id}

\* TokenRepository.DeleteAccessToken, lines 481-483: no row affected is an
\* error built with fmt.Errorf, which wraps none of the usecase's errors.
TokenDeleteErr(rows, id) ==
    IF \A t \in rows : t.id # id THEN ErrStore ELSE Nil

\* A handler of the session group returns: the worker is free again.
Return(p, result) ==
    /\ calls' = [calls EXCEPT ![p] = Idle]
    /\ last' = result

\* ---------------------------------------------------- AuthService.Register
\* Lines 154-166: GetByUsername, then bcrypt.GenerateFromPassword.
RegisterGet(p, username, password) ==
    /\ Free(p)
    /\ UNCHANGED <<verifyVars, serviceVars, sessionVars>>
    /\ LET existed == \E a \in accounts : a.username = username
       IN  IF UserGetByUsernameErr(accounts, username) = Nil
           THEN Return(p, [op |-> "Register", username |-> username,
                           existed |-> existed, changed |-> accounts' # accounts,
                           err |-> ErrAccountAlreadyExists])
           ELSE /\ calls' = [calls EXCEPT ![p] =
                       [op |-> "Register", pc |-> "r_create",
                        username |-> username,
                        hashedPassword |-> BcryptHash(password),
                        existed |-> existed, before |-> accounts]]
                /\ last' = NoCall

\* Lines 168-176: s.userRepo.Create(ctx, username, string(hashedPassword)).
RegisterCreate(p) ==
    /\ ~crashed
    /\ calls[p].op = "Register" /\ calls[p].pc = "r_create"
    /\ UNCHANGED <<verifyVars, serviceVars, tokens, nextTokenID, nextToken, issued,
                   loggedOut, roleRows, roleLog>>
    /\ LET c == calls[p]
       IN  IF UserDefaultRole(roleRows) # {} /\ UsernameUnique(accounts, c.username)
           THEN /\ accounts' = accounts \cup
                        {UserRow(nextUserID, c.username, c.hashedPassword,
                                 (CHOOSE r \in UserDefaultRole(roleRows) : TRUE).id)}
                /\ nextUserID' = nextUserID + 1
                /\ Return(p, [op |-> "Register", username |-> c.username,
                              existed |-> c.existed,
                              changed |-> accounts' # c.before, err |-> Nil])
           ELSE /\ UNCHANGED <<accounts, nextUserID>>
                /\ Return(p, [op |-> "Register", username |-> c.username,
                              existed |-> c.existed,
                              changed |-> accounts' # c.before, err |-> ErrStore])

\* ------------------------------------------------------- AuthService.Login
\* Lines 108-127: GetByUsername, CompareHashAndPassword, generateAccessToken.
LoginGet(p, username, password) ==
    /\ Free(p)
    /\ UNCHANGED <<verifyVars, serviceVars, accounts, tokens, nextUserID, nextTokenID,
                   issued, loggedOut, roleRows, roleLog>>
    /\ LET known == \E a \in accounts : a.username = username
           wrong == \E a \in accounts : a.username = username
                                        /\ a.password[2] # password
           res(err) == [op |-> "Login", known |-> known, wrong |-> wrong,
                        changed |-> tokens' # tokens, id |-> 0, token |-> 0,
                        err |-> err]
       IN  IF UserGetByUsernameErr(accounts, username) # Nil
           THEN Return(p, res(ErrAccountNotFound)) /\ UNCHANGED nextToken
           ELSE LET user == CHOOSE a \in UserGetByUsername(accounts, username) : TRUE
                IN  IF ~BcryptCompare(user.password, password)
                    THEN Return(p, res(ErrBadCredentials)) /\ UNCHANGED nextToken
                    ELSE /\ nextToken <= MaxLogins
                         /\ nextToken' = nextToken + 1
                         /\ calls' = [calls EXCEPT ![p] =
                                [op |-> "Login", pc |-> "l_create",
                                 userID |-> user.id, accessToken |-> nextToken,
                                 known |-> known, wrong |-> wrong,
                                 before |-> tokens]]
                         /\ last' = NoCall

\* Lines 129-140: s.tokenRepo.CreateAccessToken(ctx, user.ID, accessToken).
LoginCreate(p) ==
    /\ ~crashed
    /\ calls[p].op = "Login" /\ calls[p].pc = "l_create"
    /\ UNCHANGED <<verifyVars, serviceVars, accounts, nextUserID, nextToken, loggedOut,
                   roleRows, roleLog>>
    /\ LET c == calls[p]
       IN  /\ tokens' = tokens \cup {TokenRow(nextTokenID, c.userID, c.accessToken)}
           /\ nextTokenID' = nextTokenID + 1
           /\ issued' = [t \in DOMAIN issued \cup {c.accessToken} |->
                            IF t = c.accessToken THEN c.userID ELSE issued[t]]
           /\ Return(p, [op |-> "Login", known |-> c.known, wrong |-> c.wrong,
                         changed |-> tokens' # c.before, id |-> c.userID,
                         token |-> c.accessToken, err |-> Nil])

\* ------------------------------------------------------ AuthService.Logout
\* Lines 190-194: s.tokenRepo.GetAccessTokenByToken(ctx, accessToken).
LogoutGet(p, accessToken) ==
    /\ Free(p)
    /\ UNCHANGED <<verifyVars, serviceVars, sessionVars>>
    /\ LET rows == TokenGetByToken(tokens, accessToken)
       IN  IF rows = {}
           THEN Return(p, [op |-> "Logout", token |-> accessToken,
                           valid |-> accessToken \in DOMAIN issued,
                           err |-> ErrTokenNotFound])
           ELSE /\ calls' = [calls EXCEPT ![p] =
                       [op |-> "Logout", pc |-> "lo_del", token |-> accessToken,
                        tokenID |-> (CHOOSE t \in rows : TRUE).id]]
                /\ last' = NoCall

\* Lines 197-205: s.tokenRepo.DeleteAccessToken(ctx, token.ID).
LogoutDel(p) ==
    /\ ~crashed
    /\ calls[p].op = "Logout" /\ calls[p].pc = "lo_del"
    /\ UNCHANGED <<verifyVars, serviceVars, accounts, nextUserID, nextTokenID, nextToken,
                   issued, roleRows, roleLog>>
    /\ LET c   == calls[p]
           err == TokenDeleteErr(tokens, c.tokenID)
       IN  /\ tokens' = TokenDelete(tokens, c.tokenID)
           /\ loggedOut' = IF err = Nil THEN loggedOut \cup {c.token} ELSE loggedOut
           /\ Return(p, [op |-> "Logout", token |-> c.token,
                         valid |-> c.token \in DOMAIN issued, err |-> err])

\* -------------------------------------------- AuthService.CheckAccessToken
CheckAccessToken(p, accessToken) ==
    /\ Free(p)
    /\ UNCHANGED <<verifyVars, serviceVars, sessionVars>>
    /\ LET rows  == TokenGetByToken(tokens, accessToken)
           known == accessToken \in DOMAIN issued
           res(ret, err) ==
               [op |-> "CheckAccessToken", token |-> accessToken,
                live |-> known /\ accessToken \notin loggedOut,
                out |-> accessToken \in loggedOut,
                absent |-> \A t \in tokens : t.access_token # accessToken,
                owner |-> IF known THEN issued[accessToken] ELSE 0,
                ret |-> ret, err |-> err]
       IN  IF rows = {}
           THEN Return(p, res(0, ErrTokenNotFound))
           ELSE Return(p, res((CHOOSE t \in rows : TRUE).user_id, Nil))

\* ------------------------------------------ service_token (infra/postgres)
\* TokenRepository.CreateServiceToken, the row it inserts.
SvcTokenRow(id, serviceName, token) ==
    [id |-> id, service_name |-> serviceName, token |-> token]

\* TokenRepository.GetServiceTokenByServiceName: the rows WHERE service_name = $1.
SvcTokenGetByServiceName(rows, serviceName) ==
    {r \in rows : r.service_name = serviceName}

SvcTokenGetByServiceNameErrAlways(rows, serviceName) == ErrStore

\* TokenRepository.GetServiceTokenByServiceName, its error: no row is a
\* wrapped sql.ErrNoRows.
SvcTokenGetByServiceNameErr(rows, serviceName) ==
    IF SvcTokenGetByServiceName(rows, serviceName) = {} THEN ErrStore ELSE Nil

SvcTokenGetByTokenAny(rows, token) == rows

\* TokenRepository.GetServiceTokenByToken: the rows WHERE token = $1.
SvcTokenGetByToken(rows, token) == {r \in rows : r.token = token}

\* service_token.service_name is unique (the schema is not among the sources;
\* the data model states it).
ServiceNameUnique(rows, serviceName) ==
    \A r \in rows : r.service_name # serviceName

\* ------------------------------------------ AuthService.GenerateServiceToken
\* Lines 304-317: GetServiceTokenByServiceName, then generateServiceToken.
GenerateServiceTokenGet(p, serviceName) ==
    /\ Free(p)
    /\ UNCHANGED <<verifyVars, sessionVars, svcTokens, nextSvcID>>
    /\ LET existed == \E r \in svcTokens : r.service_name = serviceName
           first   == IF serviceName \in DOMAIN svcFirst
                      THEN svcFirst[serviceName] ELSE 0
       IN  IF SvcTokenGetByServiceNameErr(svcTokens, serviceName) = Nil
           THEN LET existingToken ==
                        CHOOSE r \in SvcTokenGetByServiceName(svcTokens, serviceName) : TRUE
                IN  /\ Return(p, [op |-> "GenerateServiceToken",
                                  existed |-> existed, first |-> first,
                                  changed |-> FALSE,
                                  token |-> existingToken.token, err |-> Nil])
                    /\ svcFirst' = IF first = 0
                                   THEN [n \in DOMAIN svcFirst \cup {serviceName} |->
                                            IF n = serviceName THEN existingToken.token
                                            ELSE svcFirst[n]]
                                   ELSE svcFirst
                    /\ UNCHANGED nextSvcToken
           ELSE /\ nextSvcToken <= MaxSvcTokens
                /\ nextSvcToken' = nextSvcToken + 1
                /\ calls' = [calls EXCEPT ![p] =
                       [op |-> "GenerateServiceToken", pc |-> "g_create",
                        serviceName |-> serviceName, serviceToken |-> nextSvcToken,
                        existed |-> existed, before |-> svcTokens]]
                /\ last' = NoCall
                /\ UNCHANGED svcFirst

\* Lines 319-327: s.tokenRepo.CreateServiceToken(ctx, serviceName, serviceToken).
GenerateServiceTokenCreate(p) ==
    /\ ~crashed
    /\ calls[p].op = "GenerateServiceToken" /\ calls[p].pc = "g_create"
    /\ UNCHANGED <<verifyVars, sessionVars, nextSvcToken>>
    /\ LET c     == calls[p]
           first == IF c.serviceName \in DOMAIN svcFirst
                    THEN svcFirst[c.serviceName] ELSE 0
       IN  IF ServiceNameUnique(svcTokens, c.serviceName)
           THEN /\ svcTokens' = svcTokens \cup
                        {SvcTokenRow(nextSvcID, c.serviceName, c.serviceToken)}
                /\ nextSvcID' = nextSvcID + 1
                /\ svcFirst' = IF first = 0
                               THEN [n \in DOMAIN svcFirst \cup {c.serviceName} |->
                                        IF n = c.serviceName THEN c.serviceToken
                                        ELSE svcFirst[n]]
                               ELSE svcFirst
                /\ Return(p, [op |-> "GenerateServiceToken",
                              existed |-> c.existed, first |-> first,
                              changed |-> svcTokens' # c.before,
                              token |-> c.serviceToken, err |-> Nil])
           ELSE /\ UNCHANGED <<svcTokens, nextSvcID, svcFirst>>
                /\ Return(p, [op |-> "GenerateServiceToken",
                              existed |-> c.existed, first |-> first,
                              changed |-> svcTokens' # c.before,
                              token |-> 0, err |-> ErrStore])

\* ------------------------------------------- AuthService.CheckServiceToken
\* Lines 363-371: every error of GetServiceTokenByToken is (false, nil).
CheckServiceToken(p, serviceToken) ==
    /\ Free(p)
    /\ UNCHANGED <<verifyVars, sessionVars, serviceVars>>
    /\ Return(p, [op |-> "CheckServiceToken",
                  exists |-> \E r \in svcTokens : r.token = serviceToken,
                  ret |-> SvcTokenGetByToken(svcTokens, serviceToken) # {},
                  err |-> Nil])

\* -------------------------------------------------- role (infra/postgres)
RoleGetByTitleDefault(table, title) == {r \in table : r.id = DefaultRoleID}

\* RoleRepository.GetByTitle: the rows WHERE title = $1.
RoleGetByTitle(table, title) == {r \in table : r.title = title}

\* UserRepository.GetByID: the rows WHERE u.id = $1.
UserGetByID(rows, id) == {a \in rows : a.id = id}

\* UPDATE ... WHERE id = $3 AND role_id = (the default role's id): only the
\* first change of a role is applied.
UserUpdateRoleOnce(rows, userID, roleID) ==
    {IF a.id = userID /\ a.role_id = DefaultRoleID
     THEN [a EXCEPT !.role_id = roleID] ELSE a : a \in rows}

\* UserRepository.UpdateUserRole: UPDATE account SET role_id = $1 WHERE id = $3.
UserUpdateRole(rows, userID, roleID) ==
    {IF a.id = userID THEN [a EXCEPT !.role_id = roleID] ELSE a : a \in rows}

\* ----------------------------------------------------- AuthService.SetRole
\* Lines 408-413: s.roleRepo.GetByTitle(ctx, role).
SetRoleGetRole(p, userID, role) ==
    /\ Free(p)
    /\ UNCHANGED <<verifyVars, sessionVars, serviceVars>>
    /\ LET roles == RoleGetByTitle(roleRows, role)
           valid == \E r \in roleRows : r.title = role
           known == \E a \in accounts : a.id = userID
       IN  IF roles = {}
           THEN Return(p, [op |-> "SetRole", valid |-> valid, known |-> known,
                           changed |-> FALSE, err |-> ErrInvalidRole])
           ELSE /\ calls' = [calls EXCEPT ![p] =
                       [op |-> "SetRole", pc |-> "s_user", userID |-> userID,
                        roleID |-> (CHOOSE r \in roles : TRUE).id,
                        valid |-> valid, known |-> known, before |-> accounts]]
                /\ last' = NoCall

\* Lines 415-420: s.userRepo.GetByID(ctx, userID).
SetRoleGetUser(p) ==
    /\ ~crashed
    /\ calls[p].op = "SetRole" /\ calls[p].pc = "s_user"
    /\ UNCHANGED <<verifyVars, sessionVars, serviceVars>>
    /\ LET c == calls[p]
       IN  IF UserGetByID(accounts, c.userID) = {}
           THEN Return(p, [op |-> "SetRole", valid |-> c.valid, known |-> c.known,
                           changed |-> accounts # c.before,
                           err |-> ErrAccountNotFound])
           ELSE /\ calls' = [calls EXCEPT ![p] = [c EXCEPT !.pc = "s_update"]]
                /\ last' = NoCall

\* Lines 422-430: s.userRepo.UpdateUserRole(ctx, userID, roleEntity.ID); no
\* row affected is an error built with fmt.Errorf (user.go:156-158).
SetRoleUpdateStep(p) ==
    /\ ~crashed
    /\ calls[p].op = "SetRole" /\ calls[p].pc = "s_update"
    /\ UNCHANGED <<verifyVars, serviceVars, tokens, nextUserID, nextTokenID,
                   nextToken, issued, loggedOut, roleRows>>
    /\ LET c == calls[p]
       IN  /\ accounts' = UserUpdateRole(accounts, c.userID, c.roleID)
           /\ Return(p, [op |-> "SetRole", valid |-> c.valid, known |-> c.known,
                         changed |-> accounts' # c.before,
                         err |-> IF UserGetByID(accounts, c.userID) = {}
                                 THEN ErrStore ELSE Nil])

SetRoleUpdate(p) ==
    /\ SetRoleUpdateStep(p)
    /\ UNCHANGED roleLog

\* The same step, with the history of the UPDATEs that changed a row kept in
\* roleLog.
SetRoleUpdateLog(p) ==
    /\ SetRoleUpdateStep(p)
    /\ LET c == calls[p]
       IN  roleLog' =
               IF UserGetByID(accounts, c.userID) = {} THEN roleLog
               ELSE [u \in DOMAIN roleLog \cup {c.userID} |->
                        IF u = c.userID
                        THEN [id |-> c.roleID,
                              prev |-> IF u \in DOMAIN roleLog
                                       THEN roleLog[u].id ELSE 0]
                        ELSE roleLog[u]]

\* ----------------------------------------------------- AuthService.GetRole
\* Lines 385-393: the title comes from the JOIN of account and role.
GetRole(p, userID) ==
    /\ Free(p)
    /\ UNCHANGED <<verifyVars, sessionVars, serviceVars>>
    /\ LET titles == {r.title : r \in {r \in roleRows :
                          \E a \in UserGetByID(accounts, userID) : r.id = a.role_id}}
       IN  IF titles = {}
           THEN Return(p, [op |-> "GetRole", userID |-> userID, role |-> "",
                           err |-> ErrAccountNotFound])
           ELSE Return(p, [op |-> "GetRole", userID |-> userID,
                           role |-> CHOOSE t \in titles : TRUE,
                           err |-> Nil])

\* ------------------------------------------------ serverAPI (controller/grpc)
\* The status a handler answers with for what the service returned: the
\* switch on errors.Is of Login (44-53), Register (68-75), Logout (89-96),
\* Verify (126-133), SetRole (179-188) and CheckAccessToken (202-209);
\* GenerateAuthCode (110-112), GenerateServiceToken (147-149), GetRole
\* (163-165) and CheckServiceToken (223-225) answer codes.Internal to every
\* error.
GrpcStatus(op, err) ==
    IF err = Nil THEN "OK"
    ELSE CASE op = "Login" ->
                  IF err = ErrAccountNotFound THEN "NotFound"
                  ELSE IF err = ErrBadCredentials THEN "Unauthenticated"
                  ELSE "Internal"
           [] op = "Register" ->
                  IF err = ErrAccountAlreadyExists THEN "AlreadyExists"
                  ELSE "Internal"
           [] op = "Logout" ->
                  IF err = ErrTokenNotFound THEN "NotFound" ELSE "Internal"
           [] op = "Verify" ->
                  IF err = ErrVerificationFailed THEN "InvalidArgument"
                  ELSE "Internal"
           [] op = "SetRole" ->
                  IF err = ErrInvalidRole THEN "InvalidArgument"
                  ELSE IF err = ErrAccountNotFound THEN "NotFound"
                  ELSE "Internal"
           [] op = "CheckAccessToken" ->
                  IF err = ErrTokenNotFound THEN "NotFound" ELSE "Internal"
           [] OTHER -> "Internal"

\* ------------------------------------- reads that fail in the relational store
\* A read whose query fails in transport (connection lost, timeout): the
\* repository wraps the driver's error and returns it (user.go:76-78, 98-100;
\* part_003:279-281, 423-425), and the orchestrator tests err != nil only.

\* Login, lines 108-113: every error of GetByUsername is ErrAccountNotFound.
LoginGetFault(p, username, password) ==
    /\ Free(p)
    /\ UNCHANGED <<verifyVars, serviceVars, sessionVars>>
    /\ Return(p, [op |-> "Login", fault |-> TRUE, err |-> ErrAccountNotFound])

\* Register, lines 154-166: only err == nil stops the call; with an error of
\* any kind it hashes the password and goes on to Create.
RegisterGetFault(p, username, password) ==
    /\ Free(p)
    /\ UNCHANGED <<verifyVars, serviceVars, sessionVars>>
    /\ calls' = [calls EXCEPT ![p] =
           [op |-> "Register", pc |-> "r_create", username |-> username,
            hashedPassword |-> BcryptHash(password),
            existed |-> \E a \in accounts : a.username = username,
            before |-> accounts, fault |-> TRUE]]
    /\ last' = NoCall

\* Logout, lines 190-194: every error of GetAccessTokenByToken is
\* ErrTokenNotFound.
LogoutGetFault(p, accessToken) ==
    /\ Free(p)
    /\ UNCHANGED <<verifyVars, serviceVars, sessionVars>>
    /\ Return(p, [op |-> "Logout", fault |-> TRUE, err |-> ErrTokenNotFound])

\* CheckAccessToken, lines 342-346: the same.
CheckAccessTokenFault(p, accessToken) ==
    /\ Free(p)
    /\ UNCHANGED <<verifyVars, serviceVars, sessionVars>>
    /\ Return(p, [op |-> "CheckAccessToken", fault |-> TRUE,
                  ret |-> 0, err |-> ErrTokenNotFound])

\* GenerateServiceToken, lines 304-317: only err == nil returns the row's
\* token; with an error of any kind it draws a token and goes on to create.
GenerateServiceTokenGetFault(p, serviceName) ==
    /\ Free(p)
    /\ UNCHANGED <<verifyVars, sessionVars, svcTokens, nextSvcID, svcFirst>>
    /\ nextSvcToken <= MaxSvcTokens
    /\ nextSvcToken' = nextSvcToken + 1
    /\ calls' = [calls EXCEPT ![p] =
           [op |-> "GenerateServiceToken", pc |-> "g_create",
            serviceName |-> serviceName, serviceToken |-> nextSvcToken,
            existed |-> \E r \in svcTokens : r.service_name = serviceName,
            before |-> svcTokens, fault |-> TRUE]]
    /\ last' = NoCall

\* GetRole, lines 385-389: every error of GetByID is ErrAccountNotFound.
GetRoleFault(p, userID) ==
    /\ Free(p)
    /\ UNCHANGED <<verifyVars, sessionVars, serviceVars>>
    /\ Return(p, [op |-> "GetRole", fault |-> TRUE, role |-> "",
                  err |-> ErrAccountNotFound])

\* SetRole, lines 408-413: every error of GetByTitle is ErrInvalidRole.
SetRoleGetRoleFault(p, userID, role) ==
    /\ Free(p)
    /\ UNCHANGED <<verifyVars, sessionVars, serviceVars>>
    /\ Return(p, [op |-> "SetRole", fault |-> TRUE, err |-> ErrInvalidRole])

\* SetRole, lines 415-420: every error of GetByID is ErrAccountNotFound.
SetRoleGetUserFault(p) ==
    /\ ~crashed
    /\ calls[p].op = "SetRole" /\ calls[p].pc = "s_user"
    /\ UNCHANGED <<verifyVars, sessionVars, serviceVars>>
    /\ Return(p, [op |-> "SetRole", fault |-> TRUE, err |-> ErrAccountNotFound])

\* ------------------------------------------------------------ specification
Init ==
    /\ authCodes = <<>>
    /\ tgConns = {}
    /\ nextTgID = 1
    /\ calls = [p \in Procs |-> Idle]
    /\ bg = {}
    /\ genCount = 0
    /\ crashed = FALSE
    /\ last = NoCall
    /\ justIssued = NoCall
    /\ used = {}
    /\ expired = {}
    /\ accepted = {}
    /\ pending = {}
    /\ early = FALSE
    /\ orphans = {}
    /\ accounts = {}
    /\ tokens = {}
    /\ nextUserID = 1
    /\ nextTokenID = 1
    /\ nextToken = 1
    /\ issued = <<>>
    /\ loggedOut = {}
    /\ svcTokens = {}
    /\ nextSvcID = 1
    /\ nextSvcToken = 1
    /\ svcFirst = <<>>
    /\ roleRows = RoleTable
    /\ roleLog = <<>>

NextVerify ==
    \/ \E u \in UserIDs, c \in Codes : GenerateAuthCode(u, c)
    \/ \E t \in bg : BgSet(t)
    \/ \E t \in bg : BgLog(t)
    \/ Restart
    \/ Tick
    \/ \E p \in Procs, u \in UserIDs, c \in Codes : VerifyGet(p, u, c)
    \/ \E p \in Procs : VerifyGetConn(p)
    \/ \E p \in Procs : VerifyCreate(p)
    \/ \E p \in Procs : VerifyDel(p)

SpecVerify == Init /\ [][NextVerify]_vars

\* The verification flow of one worker, with a cache that may fail the DEL
\* of Verify.
NextVerifyFaults ==
    \/ \E u \in UserIDs, c \in Codes : GenerateAuthCode(u, c)
    \/ \E t \in bg : BgSet(t)
    \/ \E t \in bg : BgLog(t)
    \/ Restart
    \/ Tick
    \/ \E u \in UserIDs, c \in Codes : VerifyGet(1, u, c)
    \/ VerifyGetConn(1)
    \/ VerifyCreate(1)
    \/ VerifyDel(1)
    \/ VerifyDelFails(1)

SpecVerifyFaults == Init /\ [][NextVerifyFaults]_vars

\* The verification flow started on a store that holds a link already, as
\* an earlier Verify(2, c) on a code of GenerateAuthCode(1) leaves it.
InitLinked ==
    /\ tgConns = {TgConnRow(1, 2, 1)}
    /\ nextTgID = 2
    /\ authCodes = <<>> /\ bg = {} /\ genCount = 0 /\ crashed = FALSE
    /\ calls = [p \in Procs |-> Idle] /\ last = NoCall /\ justIssued = NoCall
    /\ used = {} /\ expired = {} /\ accepted = {} /\ pending = {} /\ early = FALSE
    /\ orphans = {} /\ roleLog = <<>>
    /\ accounts = {} /\ tokens = {} /\ nextUserID = 1 /\ nextTokenID = 1
    /\ nextToken = 1 /\ issued = <<>> /\ loggedOut = {}
    /\ svcTokens = {} /\ nextSvcID = 1 /\ nextSvcToken = 1 /\ svcFirst = <<>>
    /\ roleRows = RoleTable

SpecVerifyLinked == InitLinked /\ [][NextVerify]_vars

\* One worker, a store that holds a link already, and a cache that may fail
\* the DEL of Verify.
SpecVerifyLinkedFaults == InitLinked /\ [][NextVerifyFaults]_vars

\* The verification flow started on a cache that holds a live code already,
\* as GenerateAuthCode(1) with the draw 1 leaves it once its write has gone
\* through and the process has been started again (gen is the id of that
\* write, one no write of this behaviour has).
InitIssued ==
    /\ authCodes = RedisSet(<<>>, 1, 1, CodeTTL, MaxGen + 1)
    /\ tgConns = {} /\ nextTgID = 1
    /\ bg = {} /\ genCount = 0 /\ crashed = FALSE
    /\ calls = [p \in Procs |-> Idle] /\ last = NoCall /\ justIssued = NoCall
    /\ used = {} /\ expired = {} /\ accepted = {} /\ pending = {} /\ early = FALSE
    /\ orphans = {} /\ roleLog = <<>>
    /\ accounts = {} /\ tokens = {} /\ nextUserID = 1 /\ nextTokenID = 1
    /\ nextToken = 1 /\ issued = <<>> /\ loggedOut = {}
    /\ svcTokens = {} /\ nextSvcID = 1 /\ nextSvcToken = 1 /\ svcFirst = <<>>
    /\ roleRows = RoleTable

SpecVerifyIssued == InitIssued /\ [][NextVerify]_vars

\* The verification flow with the history of the Verify calls that ran on a
\* code before its write.
NextVerifyEarly ==
    \/ \E u \in UserIDs, c \in Codes : GenerateAuthCode(u, c)
    \/ \E t \in bg : BgSet(t)
    \/ \E t \in bg : BgLog(t)
    \/ Restart
    \/ Tick
    \/ \E p \in Procs, u \in UserIDs, c \in Codes : VerifyGetEarly(p, u, c)
    \/ \E p \in Procs : VerifyGetConn(p)
    \/ \E p \in Procs : VerifyCreate(p)
    \/ \E p \in Procs : VerifyDel(p)

SpecVerifyEarly == Init /\ [][NextVerifyEarly]_vars

\* The verification flow with the history of the calls a death of the
\* process has cut short.
NextVerifyCrash ==
    \/ \E u \in UserIDs, c \in Codes : GenerateAuthCode(u, c)
    \/ \E t \in bg : BgSet(t)
    \/ \E t \in bg : BgLogOrphans(t)
    \/ Restart
    \/ Tick
    \/ \E p \in Procs, u \in UserIDs, c \in Codes : VerifyGet(p, u, c)
    \/ \E p \in Procs : VerifyGetConn(p)
    \/ \E p \in Procs : VerifyCreate(p)
    \/ \E p \in Procs : VerifyDel(p)

SpecVerifyCrash == Init /\ [][NextVerifyCrash]_vars

\* The verification flow with goroutines that are scheduled: one that can
\* take its next step does not wait for ever.
SpecVerifyLive ==
    /\ SpecVerify
    /\ WF_vars(\E t \in bg : BgSet(t))
    /\ WF_vars(\E t \in bg : BgLog(t))

NextSession ==
    \/ \E p \in Procs, u \in Usernames, pw \in Passwords : RegisterGet(p, u, pw)
    \/ \E p \in Procs : RegisterCreate(p)
    \/ \E p \in Procs, u \in Usernames, pw \in Passwords : LoginGet(p, u, pw)
    \/ \E p \in Procs : LoginCreate(p)
    \/ \E p \in Procs, t \in 1..MaxLogins : LogoutGet(p, t)
    \/ \E p \in Procs : LogoutDel(p)
    \/ \E p \in Procs, t \in 1..MaxLogins : CheckAccessToken(p, t)

SpecSession == Init /\ [][NextSession]_vars

NextService ==
    \/ \E p \in Procs, n \in ServiceNames : GenerateServiceTokenGet(p, n)
    \/ \E p \in Procs : GenerateServiceTokenCreate(p)
    \/ \E p \in Procs, t \in 1..MaxSvcTokens : CheckServiceToken(p, t)
    \/ \E p \in Procs, t \in 1..MaxLogins : CheckAccessToken(p, t)

SpecService == Init /\ [][NextService]_vars

NextRole ==
    \/ \E p \in Procs, u \in Usernames, pw \in Passwords : RegisterGet(p, u, pw)
    \/ \E p \in Procs : RegisterCreate(p)
    \/ \E p \in Procs, u \in UserIDs, r \in RoleTitles : SetRoleGetRole(p, u, r)
    \/ \E p \in Procs : SetRoleGetUser(p)
    \/ \E p \in Procs : SetRoleUpdate(p)
    \/ \E p \in Procs, u \in UserIDs : GetRole(p, u)

SpecRole == Init /\ [][NextRole]_vars

\* The orchestrator's operations on the relational store, one worker, with
\* reads that may fail in transport.
NextReadFaults ==
    \/ \E u \in Usernames, pw \in Passwords : RegisterGet(1, u, pw)
    \/ \E u \in Usernames, pw \in Passwords : RegisterGetFault(1, u, pw)
    \/ RegisterCreate(1)
    \/ \E u \in Usernames, pw \in Passwords : LoginGet(1, u, pw)
    \/ \E u \in Usernames, pw \in Passwords : LoginGetFault(1, u, pw)
    \/ LoginCreate(1)
    \/ \E t \in 1..MaxLogins : LogoutGet(1, t)
    \/ \E t \in 1..MaxLogins : LogoutGetFault(1, t)
    \/ LogoutDel(1)
    \/ \E t \in 1..MaxLogins : CheckAccessToken(1, t)
    \/ \E t \in 1..MaxLogins : CheckAccessTokenFault(1, t)
    \/ \E n \in ServiceNames : GenerateServiceTokenGet(1, n)
    \/ \E n \in ServiceNames : GenerateServiceTokenGetFault(1, n)
    \/ GenerateServiceTokenCreate(1)
    \/ \E u \in UserIDs : GetRole(1, u)
    \/ \E u \in UserIDs : GetRoleFault(1, u)
    \/ \E u \in UserIDs, r \in RoleTitles : SetRoleGetRole(1, u, r)
    \/ \E u \in UserIDs, r \in RoleTitles : SetRoleGetRoleFault(1, u, r)
    \/ SetRoleGetUser(1)
    \/ SetRoleGetUserFault(1)
    \/ SetRoleUpdate(1)

SpecReadFaults == Init /\ [][NextReadFaults]_vars

\* Accounts and roles with the history of the UPDATEs of SetRole.
NextRoleLog ==
    \/ \E p \in Procs, u \in Usernames, pw \in Passwords : RegisterGet(p, u, pw)
    \/ \E p \in Procs : RegisterCreate(p)
    \/ \E p \in Procs, u \in UserIDs, r \in RoleTitles : SetRoleGetRole(p, u, r)
    \/ \E p \in Procs : SetRoleGetUser(p)
    \/ \E p \in Procs : SetRoleUpdateLog(p)
    \/ \E p \in Procs, u \in UserIDs : GetRole(p, u)

SpecRoleLog == Init /\ [][NextRoleLog]_vars

\* Accounts and roles on a role table that holds any of the two rows: the
\* migrations that fill it are not among the sources, and no operation of the
\* service writes it.
InitRoles ==
    /\ roleRows \in SUBSET RoleTable
    /\ authCodes = <<>> /\ tgConns = {} /\ nextTgID = 1
    /\ bg = {} /\ genCount = 0 /\ crashed = FALSE
    /\ calls = [p \in Procs |-> Idle] /\ last = NoCall /\ justIssued = NoCall
    /\ used = {} /\ expired = {} /\ accepted = {} /\ pending = {} /\ early = FALSE
    /\ orphans = {} /\ roleLog = <<>>
    /\ accounts = {} /\ tokens = {} /\ nextUserID = 1 /\ nextTokenID = 1
    /\ nextToken = 1 /\ issued = <<>> /\ loggedOut = {}
    /\ svcTokens = {} /\ nextSvcID = 1 /\ nextSvcToken = 1 /\ svcFirst = <<>>

SpecRoleTables == InitRoles /\ [][NextRole]_vars

\* ------------------------------------------------------------------ claims
\* A step of worker p's own call (the panic of line 229 ends every call, it is
\* no step of theirs).
Moved(p) == calls'[p] # calls[p] /\ ~crashed'

\* C1: when GenerateAuthCode(a) has returned c and Verify(a, c) is called right
\* after it, for an account with no link or with the link the code pairs it to,
\* that Verify returns verified = true; a later Verify with the same c, c not
\* issued again in between, fails with VerificationFailed.
C1_VerifiesExactlyOnce ==
    last.op = "Verify" =>
        /\ last.first => (last.ret /\ last.err = Nil)
        /\ last.again => (~last.ret /\ last.err = ErrVerificationFailed)

\* C2: of the Verify calls that read one and the same write of a code, at most
\* one returns verified = true, however the calls interleave.
C2_AtMostOneAccept ==
    (last.op = "Verify" /\ last.ret) => ~last.dup

\* C3: no execution of GenerateAuthCode, the goroutine it starts included,
\* brings the process down, whether the cache write succeeds or fails.
C3_NeverCrashes == ~crashed

\* C4, as claimed: a Verify that finds the code in the cache and no link for
\* the account creates the link and returns verified = true.
C4_CreatesAndVerifies ==
    (last.op = "Verify" /\ ~last.absent /\ last.noLink) =>
        (last.created /\ last.ret /\ last.err = Nil)

\* C4, amended: a Verify that finds the code in the cache and no link for the
\* account inserts one row, (accountID, v), v being the value that was handed
\* to the cache write of that code, and v is what it compares with the link;
\* if the store takes the row Verify goes on to return verified = true, and if
\* the store refuses it Verify creates nothing and fails with VerificationFailed.
C4_StepOK(p) ==
    LET c == calls[p]
    IN  /\ (c.pc = "v_create" /\ Moved(p)) =>
              \/ /\ tgConns' = tgConns \cup {[id |-> nextTgID, user_id |-> c.userID,
                                               tg_user_id |-> c.src]}
                 /\ tgConns' # tgConns
                 /\ calls'[p].pc = "v_del" /\ calls'[p].created
                 /\ c.tgUserID = c.src
              \/ /\ tgConns' = tgConns
                 /\ calls'[p] = Idle
                 /\ ~last'.ret /\ last'.err = ErrVerificationFailed /\ ~last'.created
        /\ (c.pc = "v_del" /\ c.created /\ Moved(p)) =>
              (last'.ret /\ last'.err = Nil /\ last'.created)
        /\ (c.pc \notin {"idle", "v_create"} /\ Moved(p)) => tgConns' = tgConns

C4_CreatesOrFails == [][\A p \in Procs : C4_StepOK(p)]_vars

C4_Witness ==
    last.op = "Verify" /\ last.noLink /\ last.created /\ last.ret

\* C5: a Verify whose code is not in the cache (never written, deleted, or run
\* out of time) fails with VerificationFailed, with no other error, and has
\* created no link.
C5_AbsentFails ==
    (last.op = "Verify" /\ last.absent) =>
        /\ ~last.ret
        /\ last.err = ErrVerificationFailed
        /\ ~last.created /\ ~last.noLink

C5_Witness ==
    /\ last.op = "Verify" /\ last.absent /\ last.late
    /\ last.err = ErrVerificationFailed

\* C6: a Register for a username that an earlier Register has already created
\* fails with AlreadyExists and leaves the account rows as they were.
C6_SecondRegisterFails ==
    (last.op = "Register" /\ last.existed) =>
        (last.err = ErrAccountAlreadyExists /\ ~last.changed)

C6_Witness ==
    /\ last.op = "Register" /\ last.existed
    /\ last.err = ErrAccountAlreadyExists
    /\ \E a \in accounts : a.username = last.username

\* C7: of two Register calls for one username, however they interleave, the
\* one that does not succeed fails with AlreadyExists and no other error.
C7_LoserGetsAlreadyExists ==
    (last.op = "Register" /\ last.err # Nil) =>
        last.err = ErrAccountAlreadyExists

\* C8: a Login with the username of an existing account and a password that
\* does not verify against its digest fails with BadCredentials and leaves the
\* token rows as they were.
C8_WrongPasswordFails ==
    (last.op = "Login" /\ last.known /\ last.wrong) =>
        (last.err = ErrBadCredentials /\ ~last.changed)

C8_Witness ==
    /\ last.op = "Login" /\ last.known /\ last.wrong
    /\ last.err = ErrBadCredentials

\* C9: CheckAccessToken on a token that a Login has returned and no Logout has
\* succeeded on returns the account id that Login returned; on a token a Logout
\* has succeeded on it fails with NotFound.
C9_CheckFollowsLogin ==
    last.op = "CheckAccessToken" =>
        /\ last.live => (last.err = Nil /\ last.ret = last.owner)
        /\ last.out => (last.err = ErrTokenNotFound)

C9_Witness ==
    /\ last.op = "CheckAccessToken" /\ last.out
    /\ last.err = ErrTokenNotFound
    /\ \E t \in tokens : t.access_token # last.token

\* C10: of two Logout calls with one valid token, in sequence or interleaved,
\* the one that does not succeed fails with NotFound and no other error.
C10_SecondLogoutNotFound ==
    (last.op = "Logout" /\ last.valid /\ last.err # Nil) =>
        last.err = ErrTokenNotFound

\* C11: a GenerateServiceToken for a name that has a row returns that row's
\* token and writes nothing; every token returned for a name is the first one
\* returned for it; no name has two rows.
C11_SameTokenAgain ==
    /\ \A r1, r2 \in svcTokens : r1.service_name = r2.service_name => r1 = r2
    /\ (last.op = "GenerateServiceToken" /\ last.existed) =>
           (last.err = Nil /\ ~last.changed)
    /\ (last.op = "GenerateServiceToken" /\ last.err = Nil /\ last.first # 0) =>
           last.token = last.first

C11_Witness ==
    /\ last.op = "GenerateServiceToken" /\ last.existed
    /\ last.err = Nil /\ last.token = last.first
    /\ Cardinality(svcTokens) = 2

\* C12: of two GenerateServiceToken calls for one name, however they
\* interleave, none fails.
C12_NeitherFails ==
    last.op = "GenerateServiceToken" => last.err = Nil

\* C13: CheckServiceToken(t) returns true exactly when a row holds t, and
\* never an error; CheckAccessToken on a token no row holds fails with NotFound.
C13_CheckServiceIsBoolean ==
    /\ last.op = "CheckServiceToken" =>
           (last.ret = last.exists /\ last.err = Nil)
    /\ (last.op = "CheckAccessToken" /\ last.absent) =>
           last.err = ErrTokenNotFound

C13_Witness ==
    /\ last.op = "CheckServiceToken" /\ ~last.exists /\ ~last.ret
    /\ svcTokens # {}

\* C14: a SetRole with a title of no role fails with InvalidRole, whether the
\* account exists or not, and leaves the account rows as they were.
C14_UnknownRoleFails ==
    (last.op = "SetRole" /\ ~last.valid) =>
        (last.err = ErrInvalidRole /\ ~last.changed)

C14_Witness ==
    /\ last.op = "SetRole" /\ ~last.valid /\ ~last.known
    /\ last.err = ErrInvalidRole
    /\ \E a \in accounts : a.role_id # DefaultRoleID

\* C15: no account id has two links: a step that adds a link adds one, for an
\* account that had none, and a Verify that found a link adds none.
C15_StepOK(p) ==
    LET c == calls[p]
    IN  (c.op = "Verify" /\ Moved(p) /\ tgConns' # tgConns) =>
            /\ c.noLink
            /\ \A r \in tgConns : r.user_id # c.userID
            /\ Cardinality(tgConns') = Cardinality(tgConns) + 1

C15_OneLinkPerAccount ==
    [][/\ \A p \in Procs : C15_StepOK(p)
       /\ \A r1, r2 \in tgConns' : r1.user_id = r2.user_id => r1 = r2]_vars

C15_Witness ==
    /\ last.op = "Verify" /\ last.ret /\ ~last.noLink /\ ~last.created
    /\ \E r \in tgConns : r.user_id # r.tg_user_id

\* C16: no secondary-identity id has two links.
C16_OneLinkPerIdentity ==
    \A r1, r2 \in tgConns : r1.tg_user_id = r2.tg_user_id => r1 = r2

C16_Witness ==
    /\ last.op = "Verify" /\ last.noLink /\ ~last.created
    /\ last.err = ErrVerificationFailed
    /\ \E r \in tgConns : r.user_id # r.tg_user_id

\* C17: a Verify whose code matched and whose cache delete then failed
\* returns an error that is not VerificationFailed, and not verified = true.
C17_DelFailureIsStoreError ==
    (last.op = "Verify" /\ last.delFailed) =>
        (~last.ret /\ last.err \notin {Nil, ErrVerificationFailed})

C17_Witness ==
    /\ last.op = "Verify" /\ last.delFailed /\ last.linked /\ last.same
    /\ last.err = ErrStore

\* C18: a Verify that found a link for the account returns verified = true
\* only if the link's secondary id is the value cached under the code, and
\* fails with VerificationFailed if it is another.
C18_LinkMustMatch ==
    (last.op = "Verify" /\ last.linked) =>
        /\ last.ret => last.same
        /\ ~last.same => last.err = ErrVerificationFailed

C18_Witness ==
    /\ last.op = "Verify" /\ last.linked /\ ~last.same
    /\ last.err = ErrVerificationFailed

\* C19: a Verify that runs on an issued code whose cache write has not gone
\* through (not yet, or not at all) fails with VerificationFailed, and the
\* process does not die in a flow in which that has happened.
C19_EarlyVerifyFailsCleanly ==
    /\ (last.op = "Verify" /\ last.unwritten) =>
           (~last.ret /\ last.err = ErrVerificationFailed)
    /\ early => ~crashed

\* C20: every code GenerateAuthCode(accountID) has returned is in the cache
\* some time later, mapped to accountID with the configured time to live.
C20_EventuallyStored ==
    \A u \in UserIDs, c \in Codes :
        (justIssued = [userID |-> u, code |-> c])
            ~> (/\ c \in DOMAIN authCodes
                /\ authCodes[c].src = u
                /\ authCodes[c].ttl = CodeTTL)

\* C21: a read of the relational store that fails in transport is reported by
\* no operation as a domain kind: the call returns the store's error, and
\* Register and GenerateServiceToken write no row after it.
C21_ReadFaultIsInternal ==
    [][/\ ("fault" \in DOMAIN last' /\ last' # last) => last'.err = ErrStore
       /\ \A p \in Procs :
              ("fault" \in DOMAIN calls[p] /\ Moved(p)) =>
                  accounts' = accounts /\ svcTokens' = svcTokens]_vars
\* C22: a Logout that succeeds removes the one access_token row that holds
\* its token and nothing else: every other row of access_token, those of the
\* same account too, and every account, service token and link stay as they
\* were.
C22_LogoutRemovesOneRow ==
    [][\A p \in Procs :
          (calls[p].op = "Logout" /\ Moved(p)
           /\ last'.op = "Logout" /\ last'.err = Nil) =>
              /\ \E r \in tokens : /\ r.access_token = calls[p].token
                                   /\ tokens' = tokens \ {r}
              /\ \A t \in 1..MaxLogins :
                     t # calls[p].token =>
                         TokenGetByToken(tokens', t) = TokenGetByToken(tokens, t)
              /\ accounts' = accounts
              /\ svcTokens' = svcTokens
              /\ tgConns' = tgConns]_vars

\* A Logout has succeeded and another token of the same account is still in
\* the table.
C22_Witness ==
    /\ last.op = "Logout" /\ last.err = Nil
    /\ last.token \in loggedOut
    /\ \E t \in tokens : /\ t.access_token # last.token
                         /\ t.user_id = issued[last.token]
\* C23: in every state every account's role_id is the id of a row of role:
\* Register writes the id it has selected for "user" and writes no account
\* when there is no such row, and SetRole writes the id of the row it found.
C23_RoleExists ==
    \A a \in accounts : \E r \in roleRows : r.id = a.role_id

\* A SetRole has repointed an account to "admin".
C23_Witness ==
    /\ last.op = "SetRole" /\ last.err = Nil /\ last.changed
    /\ \E a \in accounts : \E r \in roleRows : r.id = a.role_id /\ r.title = "admin"
\* C24: when the process died on a Verify(a, c) that had inserted its link and
\* not yet deleted c, a later Verify(a, c) that reads the same cache entry
\* returns true, a later Verify(a, c) after the entry ran out of time fails
\* with VerificationFailed, and no Verify that starts on a code whose time
\* has run out returns true.
C24_ReusableUntilExpiry ==
    [][/\ \A p \in Procs :
              (/\ calls[p].op = "Verify" /\ Moved(p) /\ last'.op = "Verify"
               /\ [userID |-> calls[p].userID, code |-> calls[p].code,
                   gen |-> calls[p].gen] \in orphans) =>
                  last'.ret /\ last'.err = Nil
       /\ \A p \in Procs, o \in orphans :
              (VerifyGet(p, o.userID, o.code) /\ o.code \in expired) =>
                  /\ last'.op = "Verify" /\ ~last'.ret
                  /\ last'.err = ErrVerificationFailed
       /\ (last'.op = "Verify" /\ last'.late) => ~last'.ret]_vars

\* The process died on a Verify between its INSERT and its DEL, and a later
\* Verify has found that link and the same cache entry and returned true.
C24_Witness ==
    /\ \E o \in orphans : o.gen \in accepted
    /\ last.op = "Verify" /\ last.ret /\ last.linked /\ ~last.created /\ ~last.dup
\* C25: GetRole on an account returns the title of the role that the last
\* UPDATE of a SetRole applied to it wrote, whatever the order the calls were
\* made in, and a SetRole that returns ErrInvalidRole or ErrAccountNotFound
\* has changed no account at the step it returns, nor at a step before it.
C25_LastWriteWins ==
    [][/\ (last'.op = "GetRole" /\ last'.err = Nil /\ last' # last
           /\ last'.userID \in DOMAIN roleLog) =>
              \E r \in roleRows : /\ r.id = roleLog[last'.userID].id
                                  /\ r.title = last'.role
       /\ (last'.op = "SetRole" /\ last' # last
           /\ last'.err \in {ErrInvalidRole, ErrAccountNotFound}) =>
              accounts' = accounts
       /\ \A p \in Procs :
              (Moved(p) /\ calls'[p].op = "SetRole") => accounts' = accounts]_vars

\* A GetRole has returned the role of the later of two UPDATEs that wrote
\* different roles to its account.
C25_Witness ==
    /\ last.op = "GetRole" /\ last.err = Nil
    /\ last.userID \in DOMAIN roleLog
    /\ roleLog[last.userID].prev \notin {0, roleLog[last.userID].id}
    /\ \E r \in roleRows : r.id = roleLog[last.userID].id /\ r.title = last.role
\* C26: whatever operation has returned one of the domain errors
\* (AlreadyExists, NotFound, BadCredentials, InvalidRole, VerificationFailed),
\* its handler answers with a status other than Internal; GetRole on an
\* account that does not exist is answered with a not-found status.
C26_DomainKindsTranslated ==
    ("err" \in DOMAIN last
     /\ last.err \in {ErrAccountAlreadyExists, ErrAccountNotFound, ErrTokenNotFound,
                      ErrBadCredentials, ErrInvalidRole, ErrVerificationFailed}) =>
        GrpcStatus(last.op, last.err) # "Internal"
\* C27: a Verify that returns VerificationFailed has left the cache as it
\* was, at the step it returns and at every step before it: the only steps
\* of a Verify that write the cache are those of its DEL.
C27_FailedVerifyKeepsCache ==
    [][/\ (last'.op = "Verify" /\ last'.err = ErrVerificationFailed) =>
              authCodes' = authCodes
       /\ \A p \in Procs :
              (Moved(p) /\ calls'[p].op = "Verify") => authCodes' = authCodes]_vars

\* A Verify has met a link to another identity and failed, and the code it
\* was given is still in the cache.
C27_Witness ==
    /\ last.op = "Verify" /\ last.err = ErrVerificationFailed
    /\ last.linked /\ ~last.absent /\ ~last.ret
    /\ DOMAIN authCodes # {}
\* C28: no Verify that returns an error, VerificationFailed or the cache's
\* error on the delete, has inserted a link that is still in the table: a
\* link is there only for an account a Verify has returned true for.
C28_NoLinkFromFailedVerify ==
    (last.op = "Verify" /\ last.err # Nil /\ last.created) =>
        \A r \in tgConns : r.id # nextTgID - 1
\* C29: a Verify(a, c) on an account with no link inserts a link and returns
\* true only when c was issued by a GenerateAuthCode for a: a code in the
\* cache that was issued for another account links no account but that one.
C29_OnlyOwnCodeLinks ==
    [][\A p \in Procs :
          (/\ calls[p].op = "Verify" /\ Moved(p)
           /\ last'.op = "Verify" /\ last'.ret /\ calls[p].created) =>
              calls[p].src = calls[p].userID]_vars
\* C30: a code that is live in the cache keeps the write that put it there:
\* while its key is in the cache, no GenerateAuthCode that draws the same
\* string replaces the value stored under it or starts its TTL again.
C30_LiveCodeNotRebound ==
    [][\A c \in DOMAIN authCodes \cap DOMAIN authCodes' :
          /\ authCodes'[c].gen = authCodes[c].gen
          /\ authCodes'[c].val = authCodes[c].val
          /\ authCodes'[c].ttl <= authCodes[c].ttl]_vars
=============================================================================
